---------------------------- MODULE Spec2Model ----------------------------
(***************************************************************************)
(* Model of the Telegram adapter of koishi:                                *)
(*   - the API shim (packages/adapter-telegram/src/api.ts): Bot.get,       *)
(*     Bot.sendMsg, Bot.sendGroupMsg, Bot.sendPrivateMsg;                  *)
(*   - the HTTP server adapter (TelegramHTTPServer): start-up of the bots  *)
(*     and the webhook route handler with its quick-reply race.            *)
(* Strings that the code transforms (object keys, message text) are        *)
(* sequences of one-character strings; other strings are opaque.           *)
(***************************************************************************)
EXTENDS Integers, Sequences, FiniteSets, TLC

VARIABLES
    \* ---- API shim: one asynchronous call chain of a bot ----
    selfId,      \* this.selfId of the bot the call runs on
    apiOp,       \* the Bot method called: "none", "get", "sendMsg", "sendGroupMsg", "sendPrivateMsg"
    pc,          \* position of the call chain
    getIn,       \* arguments of the direct get() call
    chatId,      \* chatId / userId argument
    message,     \* message argument
    chain,       \* sendMsg: const chain
    idx,         \* sendMsg: position of the for..of loop in chain
    payload,     \* sendMsg: const payload (message and image buffers)
    result,      \* sendMsg: let result
    flushed,     \* which send has just returned into sendMsg: "none", "photo", "text"
    requests,    \* calls of this._request made by the current call, in order
    responses,   \* replies of the remote service to them, in order
    outcome,     \* how the called method settled
    session,     \* session created by sendGroupMsg / sendPrivateMsg
    bailCalls,   \* number of app.bail(session, 'before-send') runs
    vetoed,      \* whether a before-send listener bailed out
    emitted,     \* events given to app.emit, in order
    \* ---- HTTP server adapter ----
    serverPc,    \* "constructed", "starting" (_listen awaits the bots), "listening", "closed"
    bots,        \* app.options.bots: for each bot its declared base URL (bot.server)
    quickOperation,  \* app.options.quickOperation
    axios,       \* this._axios of the server
    botReady,    \* bot.ready, per bot
    botRequest,  \* whether bot._request is installed, per bot
    pending,     \* bots whose setWebhook call is awaited by __listen
    gets,        \* HTTP GETs made: which bot, which action, through which client
    reqs         \* the inbound webhook requests, per request slot

apiVars == <<selfId, apiOp, pc, getIn, chatId, message, chain, idx, payload,
             result, flushed, requests, responses, outcome, session, bailCalls,
             vetoed, emitted>>

serverVars == <<serverPc, bots, quickOperation, axios, botReady, botRequest,
                pending, gets, reqs>>

vars == <<apiVars, serverVars>>

----------------------------------------------------------------------------
(* Bounds *)

MaxLen == 3        \* tokens of a message
MaxRetcode == 2    \* retcodes range over -MaxRetcode..MaxRetcode
MaxBots == 2       \* bots of the app
MaxMsgId == 2      \* message ids the remote service hands out
MaxRequests == 2   \* inbound webhook requests in flight
MaxCalls == 2      \* invocations of the response callback per request

Retcodes == (0 - MaxRetcode)..MaxRetcode
BotIds == 1..MaxBots
ChatIds == {1}
MsgIds == 1..MaxMsgId

----------------------------------------------------------------------------
(* Strings as sequences of characters *)

Lower == <<"a","b","c","d","e","f","g","h","i","j","k","l","m",
           "n","o","p","q","r","s","t","u","v","w","x","y","z">>
Upper == <<"A","B","C","D","E","F","G","H","I","J","K","L","M",
           "N","O","P","Q","R","S","T","U","V","W","X","Y","Z">>

IsLower(c) == \E k \in DOMAIN Lower : Lower[k] = c
IsUpper(c) == \E k \in DOMAIN Upper : Upper[k] = c
toUpperCase(c) == IF IsLower(c) THEN Upper[CHOOSE k \in DOMAIN Lower : Lower[k] = c] ELSE c
toLowerCase(c) == IF IsUpper(c) THEN Lower[CHOOSE k \in DOMAIN Upper : Upper[k] = c] ELSE c

\* source.replace(/[_-][a-z]/g, str => str.slice(1).toUpperCase())
RECURSIVE camelCaseStr(_)
camelCaseStr(s) ==
    IF Len(s) = 0 THEN <<>>
    ELSE IF Len(s) >= 2 /\ s[1] \in {"_", "-"} /\ IsLower(s[2])
         THEN <<toUpperCase(s[2])>> \o camelCaseStr(SubSeq(s, 3, Len(s)))
         ELSE <<s[1]>> \o camelCaseStr(Tail(s))

\* source.replace(/-/g, '_').replace(/(?<!^)[A-Z]/g, str => '_' + str.toLowerCase())
RECURSIVE snakeCaseFrom(_, _)
snakeCaseFrom(s, k) ==
    IF k > Len(s) THEN <<>>
    ELSE LET c == IF s[k] = "-" THEN "_" ELSE s[k]
         IN  (IF k > 1 /\ IsUpper(c) THEN <<"_", toLowerCase(c)>> ELSE <<c>>)
             \o snakeCaseFrom(s, k + 1)

snakeCaseStr(s) == snakeCaseFrom(s, 1)

\* Objects are sequences of fields [key, value]; the conversions rename the
\* keys and leave the values alone.
camelCase(obj) == [k \in DOMAIN obj |-> [key |-> camelCaseStr(obj[k].key), value |-> obj[k].value]]
snakeCase(obj) == [k \in DOMAIN obj |-> [key |-> snakeCaseStr(obj[k].key), value |-> obj[k].value]]

Field(k, v) == [key |-> k, value |-> v]

K_chatId == <<"c","h","a","t","I","d">>
K_chat_id == <<"c","h","a","t","_","i","d">>
K_message == <<"m","e","s","s","a","g","e">>
K_caption == <<"c","a","p","t","i","o","n">>
K_photo == <<"p","h","o","t","o">>
K_messageId == <<"m","e","s","s","a","g","e","I","d">>
K_message_id == <<"m","e","s","s","a","g","e","_","i","d">>

\* value of field k of obj; Undefined when obj has no such field
Undefined == [kind |-> "undefined"]
HasField(obj, k) == \E j \in DOMAIN obj : obj[j].key = k
GetField(obj, k) == obj[CHOOSE j \in DOMAIN obj : obj[j].key = k].value

----------------------------------------------------------------------------
(* Messages and CQ code chains *)

Chars == {"x", "y"}
Urls == {"", "u1", "u2"}      \* "" : an image code without a url

CharTok(c) == [type |-> "char", text |-> <<c>>, url |-> ""]
ImageTok(u) == [type |-> "image", text |-> <<>>, url |-> u]
AtTok == [type |-> "at", text |-> <<>>, url |-> ""]
Tokens == {CharTok(c) : c \in Chars} \cup {ImageTok(u) : u \in Urls} \cup {AtTok}

RECURSIVE SeqsUpTo(_, _)
SeqsUpTo(S, n) ==
    IF n = 0 THEN {<<>>}
    ELSE LET shorter == SeqsUpTo(S, n - 1)
         IN  shorter \cup {Append(s, x) : s \in {t \in shorter : Len(t) = n - 1}, x \in S}

Messages == SeqsUpTo(Tokens, MaxLen)

\* CQCode.parseAll: maximal runs of plain characters become one string
\* node, every CQ code becomes one node.
RECURSIVE parseAllFrom(_, _, _)
parseAllFrom(source, k, acc) ==
    IF k > Len(source)
    THEN acc
    ELSE LET tok == source[k]
         IN  IF tok.type = "char"
             THEN IF Len(acc) > 0 /\ acc[Len(acc)].type = "text"
                  THEN parseAllFrom(source, k + 1,
                         [acc EXCEPT ![Len(acc)].text = @ \o tok.text])
                  ELSE parseAllFrom(source, k + 1,
                         Append(acc, [type |-> "text", text |-> tok.text, url |-> ""]))
             ELSE parseAllFrom(source, k + 1,
                         Append(acc, [type |-> tok.type, text |-> <<>>, url |-> tok.url]))

parseAll(source) == parseAllFrom(source, 1, <<>>)

----------------------------------------------------------------------------
(* Values, outcomes and errors *)

Obj(o) == [kind |-> "object", obj |-> o]
Num(n) == [kind |-> "number", num |-> n]
Pending == [kind |-> "pending"]
Return(v) == [kind |-> "return", value |-> v]
Throw(e) == [kind |-> "throw", error |-> e]

SenderError(args, url, retcode, self) ==
    [name |-> "SenderError", selfId |-> self, code |-> retcode, args |-> args, url |-> url]

\* `result.messageId` on an undefined result
TypeError == [name |-> "TypeError"]

NoSession == [messageType |-> "none"]

\* the request get() hands to this._request
Request(action, params) == [action |-> action, params |-> snakeCase(params)]

\* get with the boundary of the last test moved: retcode 1 throws as well
get_throwsOnOne(self, action, params, silent, response) ==
    LET data == response.data
        retcode == response.retcode
    IN  IF retcode = 0 /\ ~silent
        THEN Return(Obj(camelCase(data)))
        ELSE IF retcode < 0 /\ ~silent
             THEN Throw(SenderError(params, action, retcode, self))
             ELSE IF retcode >= 1
                  THEN Throw(SenderError(params, action, retcode, self))
                  ELSE Return(Undefined)

\* Bot.prototype.get, from the reply of this._request on
get(self, action, params, silent, response) ==
    LET data == response.data
        retcode == response.retcode
    IN  IF retcode = 0 /\ ~silent
        THEN Return(Obj(camelCase(data)))
        ELSE IF retcode < 0 /\ ~silent
             THEN Throw(SenderError(params, action, retcode, self))
             ELSE IF retcode > 1
                  THEN Throw(SenderError(params, action, retcode, self))
                  ELSE Return(Undefined)

\* Bot.prototype._sendMsg / _sendPhoto after their get() settled: a throw of
\* get propagates, otherwise the function ends without a return statement.
sendResult(getOutcome) ==
    IF getOutcome.kind = "throw" THEN getOutcome ELSE Return(Undefined)

sendPhotoParams(cid, caption, photo) ==
    <<Field(K_chatId, cid), Field(K_caption, caption), Field(K_photo, photo)>>

sendMsgParams(cid, text) ==
    <<Field(K_chatId, cid), Field(K_message, text)>>

\* the reply of the remote service to a send: on success it carries the id of
\* the message it created
SendReply(retcode, id) ==
    [retcode |-> retcode,
     data |-> IF retcode = 0 THEN <<Field(K_message_id, id)>> ELSE <<>>]

EmptyPayload == [message |-> <<>>, image |-> ""]

\* the flush test looking at the text buffer instead of the image buffer
imagePending_testsMessage(p) == p.message # <<>>

\* `if (payload.image)` (lines 105, 113)
imagePending(p) == p.image # ""

\* a flush that forgets to clear the text buffer
afterFlush_keepsMessage(p) == [p EXCEPT !.image = ""]

\* `payload.message = ''; payload.image = ''` after a photo flush
\* (lines 107-108, 115-116)
afterFlush(p) == [p EXCEPT !.message = <<>>, !.image = ""]

\* one call of a Bot method per behaviour: the logs below are per call
CanCall == pc = "idle"

----------------------------------------------------------------------------
(* API shim: Bot.prototype.get called directly *)

\* keys of the data objects the remote service answers a direct get with
DataKeys == {K_message_id, <<"a">>, <<"-", "b">>, <<"_", "B">>}
GetActions == {"getMe", "leave_chat"}

\* a new call starts from a clean frame
NewFrame(op, cid) ==
    /\ CanCall
    /\ apiOp' = op
    /\ chatId' = cid
    /\ responses' = <<>>
    /\ emitted' = <<>>
    /\ flushed' = "none"
    /\ result' = Undefined
    /\ UNCHANGED selfId
    /\ UNCHANGED serverVars

\* get(action, params, silent) up to `await this._request(...)`
GetCall(action, cid, silent) ==
    /\ NewFrame("get", cid)
    /\ getIn' = [action |-> action, params |-> <<Field(K_chatId, cid)>>, silent |-> silent]
    /\ requests' = <<Request(action, <<Field(K_chatId, cid)>>)>>
    /\ pc' = "get"
    /\ outcome' = Pending
    /\ chain' = <<>>
    /\ idx' = 1
    /\ payload' = EmptyPayload
    /\ session' = NoSession
    /\ bailCalls' = 0
    /\ vetoed' = FALSE
    /\ message' = <<>>

\* the reply arrives: get() classifies it by retcode
GetReturn(retcode, key) ==
    /\ pc = "get"
    /\ LET response == [retcode |-> retcode, data |-> <<Field(key, retcode)>>]
           o == get(selfId, getIn.action, getIn.params, getIn.silent, response)
       IN  /\ responses' = Append(responses, response)
           /\ outcome' = o
           /\ pc' = IF o.kind = "throw" THEN "threw" ELSE "done"
    /\ UNCHANGED <<selfId, apiOp, getIn, chatId, message, chain, idx, payload, result,
                   flushed, requests, session, bailCalls, vetoed, emitted, serverVars>>

----------------------------------------------------------------------------
(* API shim: Bot.prototype.sendMsg *)

\* sendMsg(chatId, message) up to the for..of loop
EnterSendMsg(msg) ==
    /\ chain' = parseAll(msg)
    /\ payload' = EmptyPayload
    /\ idx' = 1
    /\ requests' = <<>>
    /\ outcome' = Pending
    /\ pc' = "loop"

SendMsgCall(cid, msg) ==
    /\ NewFrame("sendMsg", cid)
    /\ message' = msg
    /\ EnterSendMsg(msg)
    /\ getIn' = getIn
    /\ session' = NoSession
    /\ bailCalls' = 0
    /\ vetoed' = FALSE

\* one iteration of the loop, up to the await of the flush if there is one
SendMsgNode ==
    /\ pc = "loop"
    /\ idx <= Len(chain)
    /\ LET node == chain[idx]
       IN  IF node.type = "text"
           THEN /\ payload' = [payload EXCEPT !.message = @ \o node.text]
                /\ idx' = idx + 1
                /\ UNCHANGED <<pc, requests>>
           ELSE IF node.type = "image"
                THEN IF imagePending(payload)
                     THEN /\ requests' = Append(requests,
                                Request("send_photo", sendPhotoParams(chatId, payload.message, payload.image)))
                          /\ pc' = "flushLoop"
                          /\ UNCHANGED <<payload, idx>>
                     ELSE /\ payload' = [payload EXCEPT !.image = node.url]
                          /\ idx' = idx + 1
                          /\ UNCHANGED <<pc, requests>>
                ELSE /\ idx' = idx + 1
                     /\ UNCHANGED <<pc, requests, payload>>
    /\ flushed' = "none"
    /\ UNCHANGED <<selfId, apiOp, getIn, chatId, message, chain, result, responses,
                   outcome, session, bailCalls, vetoed, emitted, serverVars>>

\* a send settles with a throw: it propagates out of sendMsg and out of
\* sendGroupMsg / sendPrivateMsg
Propagate(o) ==
    /\ outcome' = o
    /\ pc' = "threw"
    /\ UNCHANGED <<payload, result, flushed, idx>>

\* the photo send awaited inside the loop settles (lines 106-108)
FlushLoopReturn(retcode, id) ==
    /\ pc = "flushLoop"
    /\ LET response == SendReply(retcode, id)
           o == sendResult(get(selfId, "send_photo",
                    sendPhotoParams(chatId, payload.message, payload.image), FALSE, response))
       IN  /\ responses' = Append(responses, response)
           /\ IF o.kind = "throw"
              THEN Propagate(o)
              ELSE /\ result' = o.value
                   /\ payload' = afterFlush(payload)
                   /\ flushed' = "photo"
                   /\ pc' = "setImage"
                   /\ UNCHANGED <<outcome, idx>>
    /\ UNCHANGED <<selfId, apiOp, getIn, chatId, message, chain, requests, session,
                   bailCalls, vetoed, emitted, serverVars>>

\* payload.image = node.data.url (line 110) after a flush
SendMsgSetImage ==
    /\ pc = "setImage"
    /\ payload' = [payload EXCEPT !.image = chain[idx].url]
    /\ idx' = idx + 1
    /\ pc' = "loop"
    /\ flushed' = "none"
    /\ UNCHANGED <<selfId, apiOp, getIn, chatId, message, chain, result, requests,
                   responses, outcome, session, bailCalls, vetoed, emitted, serverVars>>

\* after the loop (lines 113-119), up to the await of the trailing send
SendMsgEnd ==
    /\ pc = "loop"
    /\ idx > Len(chain)
    /\ IF imagePending(payload)
       THEN /\ requests' = Append(requests,
                  Request("send_photo", sendPhotoParams(chatId, payload.message, payload.image)))
            /\ pc' = "flushEnd"
       ELSE IF payload.message # <<>>
            THEN /\ requests' = Append(requests,
                       Request("send_message", sendMsgParams(chatId, payload.message)))
                 /\ pc' = "sendText"
            ELSE /\ pc' = "ret"
                 /\ UNCHANGED requests
    /\ flushed' = "none"
    /\ UNCHANGED <<selfId, apiOp, getIn, chatId, message, chain, idx, payload, result,
                   responses, outcome, session, bailCalls, vetoed, emitted, serverVars>>

\* the trailing photo send settles (lines 114-116)
FlushEndReturn(retcode, id) ==
    /\ pc = "flushEnd"
    /\ LET response == SendReply(retcode, id)
           o == sendResult(get(selfId, "send_photo",
                    sendPhotoParams(chatId, payload.message, payload.image), FALSE, response))
       IN  /\ responses' = Append(responses, response)
           /\ IF o.kind = "throw"
              THEN Propagate(o)
              ELSE /\ result' = o.value
                   /\ payload' = afterFlush(payload)
                   /\ flushed' = "photo"
                   /\ pc' = "ret"
                   /\ UNCHANGED <<outcome, idx>>
    /\ UNCHANGED <<selfId, apiOp, getIn, chatId, message, chain, requests, session,
                   bailCalls, vetoed, emitted, serverVars>>

\* the trailing text send settles (line 118)
SendTextReturn(retcode, id) ==
    /\ pc = "sendText"
    /\ LET response == SendReply(retcode, id)
           o == sendResult(get(selfId, "send_message",
                    sendMsgParams(chatId, payload.message), FALSE, response))
       IN  /\ responses' = Append(responses, response)
           /\ IF o.kind = "throw"
              THEN Propagate(o)
              ELSE /\ result' = o.value
                   /\ flushed' = "text"
                   /\ pc' = "ret"
                   /\ UNCHANGED <<outcome, idx, payload>>
    /\ UNCHANGED <<selfId, apiOp, getIn, chatId, message, chain, requests, session,
                   bailCalls, vetoed, emitted, serverVars>>

\* `return result.messageId` (line 120)
sendMsgOutcome(res) ==
    IF res = Undefined
    THEN Throw(TypeError)
    ELSE IF HasField(res.obj, K_messageId)
         THEN Return(Num(GetField(res.obj, K_messageId)))
         ELSE Return(Undefined)

\* sendMsg settles; when sendGroupMsg / sendPrivateMsg awaited it, they go on
\* to record the id on the session and emit `send` (lines 127-129, 136-138)
SendMsgReturn ==
    /\ pc = "ret"
    /\ LET o == sendMsgOutcome(result)
       IN  IF o.kind = "throw"
           THEN /\ outcome' = o
                /\ pc' = "threw"
                /\ UNCHANGED <<session, emitted>>
           ELSE IF apiOp = "sendMsg"
                THEN /\ outcome' = o
                     /\ pc' = "done"
                     /\ UNCHANGED <<session, emitted>>
                ELSE /\ session' = [session EXCEPT !.messageId = o.value]
                     /\ emitted' = Append(emitted, [name |-> "send", session |-> session'])
                     /\ outcome' = Return(session'.messageId)
                     /\ pc' = "done"
    /\ flushed' = "none"
    /\ UNCHANGED <<selfId, apiOp, getIn, chatId, message, chain, idx, payload, result,
                   requests, responses, bailCalls, vetoed, serverVars>>

----------------------------------------------------------------------------
(* API shim: Bot.prototype.sendGroupMsg / sendPrivateMsg *)

createSession(messageType, ctxType, ctxId, msg) ==
    [messageType |-> messageType, ctxType |-> ctxType, ctxId |-> ctxId,
     message |-> msg, messageId |-> Undefined]

\* the wrappers without their empty-message test
skipped_never(msg) == FALSE

\* `if (!message) return` (lines 124, 133)
skipped(msg) == msg = <<>>

\* sendGroupMsg / sendPrivateMsg return before they reach sendMsg
ReturnEarly ==
    /\ outcome' = Return(Undefined)
    /\ pc' = "done"
    /\ chain' = <<>>
    /\ payload' = EmptyPayload
    /\ idx' = 1
    /\ requests' = <<>>

\* the common body of sendGroupMsg and sendPrivateMsg up to the await of
\* sendMsg; veto is the answer of app.bail(session, 'before-send', session)
SendWrapper(op, messageType, ctxType, cid, msg, veto) ==
    /\ NewFrame(op, cid)
    /\ message' = msg
    /\ getIn' = getIn
    /\ IF skipped(msg)
       THEN /\ session' = NoSession
            /\ bailCalls' = 0
            /\ vetoed' = FALSE
            /\ ReturnEarly
       ELSE /\ session' = createSession(messageType, ctxType, cid, msg)
            /\ bailCalls' = 1
            /\ vetoed' = veto
            /\ IF veto
               THEN ReturnEarly
               ELSE EnterSendMsg(session'.message)

SendGroupMsgCall(cid, msg, veto) ==
    SendWrapper("sendGroupMsg", "group", "group", cid, msg, veto)

SendPrivateMsgCall(cid, msg, veto) ==
    SendWrapper("sendPrivateMsg", "private", "user", cid, msg, veto)

----------------------------------------------------------------------------
(* The API shim as a system *)

InitApiVars ==
    /\ selfId = 1
    /\ apiOp = "none"
    /\ pc = "idle"
    /\ getIn = [action |-> "getMe", params |-> <<>>, silent |-> FALSE]
    /\ chatId = 1
    /\ message = <<>>
    /\ chain = <<>>
    /\ idx = 1
    /\ payload = EmptyPayload
    /\ result = Undefined
    /\ flushed = "none"
    /\ requests = <<>>
    /\ responses = <<>>
    /\ outcome = Pending
    /\ session = NoSession
    /\ bailCalls = 0
    /\ vetoed = FALSE
    /\ emitted = <<>>

NextApi ==
    \/ CanCall /\ \E a \in GetActions, cid \in ChatIds, silent \in BOOLEAN : GetCall(a, cid, silent)
    \/ pc = "get" /\ \E rc \in Retcodes, key \in DataKeys : GetReturn(rc, key)
    \/ CanCall /\ \E cid \in ChatIds, m \in Messages : SendMsgCall(cid, m)
    \/ SendMsgNode
    \/ pc = "flushLoop" /\ \E rc \in Retcodes, id \in MsgIds : FlushLoopReturn(rc, id)
    \/ SendMsgSetImage
    \/ SendMsgEnd
    \/ pc = "flushEnd" /\ \E rc \in Retcodes, id \in MsgIds : FlushEndReturn(rc, id)
    \/ pc = "sendText" /\ \E rc \in Retcodes, id \in MsgIds : SendTextReturn(rc, id)
    \/ SendMsgReturn
    \/ CanCall /\ \E cid \in ChatIds, m \in Messages, veto \in BOOLEAN : SendGroupMsgCall(cid, m, veto)
    \/ CanCall /\ \E cid \in ChatIds, m \in Messages, veto \in BOOLEAN : SendPrivateMsgCall(cid, m, veto)


----------------------------------------------------------------------------
(* Observations used by the properties of the API shim *)

Rejected(rc) == rc < 0 \/ rc > 1
NoRejection == \A k \in DOMAIN responses : ~Rejected(responses[k].retcode)
AllSucceeded == \A k \in DOMAIN responses : responses[k].retcode = 0
Settled == pc \in {"done", "threw"}
IsWrapper == apiOp \in {"sendGroupMsg", "sendPrivateMsg"}

PhotoSends == SelectSeq(requests, LAMBDA r : r.action = "send_photo")
TextSends == SelectSeq(requests, LAMBDA r : r.action = "send_message")

\* the text a send request carries (caption of a photo, message of a text)
SentText(r) ==
    IF r.action = "send_photo" THEN GetField(r.params, K_caption)
    ELSE GetField(r.params, K_message)

RECURSIVE ConcatSent(_)
ConcatSent(rs) == IF rs = <<>> THEN <<>> ELSE SentText(Head(rs)) \o ConcatSent(Tail(rs))

\* text of the nodes of ch strictly between positions lo and hi
RECURSIVE TextBetween(_, _, _)
TextBetween(ch, lo, hi) ==
    IF lo + 1 >= hi THEN <<>>
    ELSE (IF ch[lo + 1].type = "text" THEN ch[lo + 1].text ELSE <<>>)
         \o TextBetween(ch, lo + 1, hi)

AllText(ch) == TextBetween(ch, 0, Len(ch) + 1)

ImageAt(ch) == {j \in DOMAIN ch : ch[j].type = "image"}
UrlAt(ch) == {j \in ImageAt(ch) : ch[j].url # ""}
Nth(S, k) == CHOOSE j \in S : Cardinality({i \in S : i < j}) = k - 1
\* position of the first image node after position j, or one past the end
NextImage(ch, j) ==
    IF \E i \in ImageAt(ch) : i > j
    THEN CHOOSE i \in ImageAt(ch) : i > j /\ \A h \in ImageAt(ch) : h > j => i <= h
    ELSE Len(ch) + 1

OnlyTextAndImages(ch) == \A j \in DOMAIN ch : ch[j].type \in {"text", "image"}

\* id the remote service returned for the last send
LastId == GetField(responses[Len(responses)].data, K_message_id)

----------------------------------------------------------------------------
(* Properties of the API shim *)

\* what camelCase has to make of the keys the remote service answers with
CamelKey(key) ==
    CASE key = K_message_id -> K_messageId
      [] key = <<"a">> -> <<"a">>
      [] key = <<"-", "b">> -> <<"B">>
      [] key = <<"_", "B">> -> <<"_", "B">>

IsSenderError(o, rc) ==
    /\ o.kind = "throw"
    /\ o.error.name = "SenderError"
    /\ o.error.code = rc
    /\ o.error.selfId = selfId
    /\ o.error.url = getIn.action
    /\ o.error.args = getIn.params

\* C1: get() classifies the reply by retcode, for every retcode and both
\* values of silent: retcode 0 returns the case-converted data unless silent;
\* a negative retcode throws a SenderError unless silent; a retcode greater
\* than 1 throws a SenderError whatever silent is; retcode 1 returns
\* undefined and throws nothing.
C1_GetClassifiesByRetcode ==
    (apiOp = "get" /\ Settled) =>
        LET rc == responses[1].retcode
            data == responses[1].data
            silent == getIn.silent
        IN  /\ (rc = 0 /\ ~silent) =>
                  /\ pc = "done"
                  /\ outcome = Return(Obj(<<Field(CamelKey(data[1].key), data[1].value)>>))
            /\ (rc = 0 /\ silent) => (pc = "done" /\ outcome = Return(Undefined))
            /\ (rc < 0 /\ ~silent) => (pc = "threw" /\ IsSenderError(outcome, rc))
            /\ (rc < 0 /\ silent) => (pc = "done" /\ outcome = Return(Undefined))
            /\ (rc > 1) => (pc = "threw" /\ IsSenderError(outcome, rc))
            /\ (rc = 1) => (pc = "done" /\ outcome = Return(Undefined))

\* a silent get() that the remote service answers with a retcode above 1
C1_Witness ==
    /\ apiOp = "get"
    /\ pc = "threw"
    /\ getIn.silent
    /\ responses[1].retcode > 1

\* C2: sendMsg returns the identifier of the last successful send: when the
\* chain causes at least one send and the sends succeed (retcode 0), sendMsg
\* completes without error and its result is the message id the last of
\* those sends returned.
C2_ReturnsLastMessageId ==
    (apiOp = "sendMsg" /\ Settled /\ responses # <<>> /\ AllSucceeded) =>
        /\ pc = "done"
        /\ outcome = Return(Num(LastId))

C8_SendThenRecordThenEmit ==
    (IsWrapper /\ Settled /\ ~skipped(message)) =>
        /\ bailCalls = 1
        /\ vetoed => (requests = <<>> /\ emitted = <<>> /\ outcome = Return(Undefined))
        /\ (~vetoed /\ responses # <<>> /\ AllSucceeded) =>
              /\ pc = "done"
              /\ Len(emitted) = 1
              /\ emitted[1].name = "send"
              /\ emitted[1].session.messageId = Num(LastId)
              /\ outcome = Return(Num(LastId))

\* C9: sendGroupMsg and sendPrivateMsg called with an empty message skip
\* entirely: no session, no before-send hook, no remote call, no `send`
\* event, and the result is undefined.
C9_EmptyMessageSkips ==
    (IsWrapper /\ message = <<>>) =>
        /\ pc = "done"
        /\ outcome = Return(Undefined)
        /\ session = NoSession
        /\ bailCalls = 0
        /\ requests = <<>>
        /\ responses = <<>>
        /\ emitted = <<>>

\* sendPrivateMsg was called with an empty message and has returned
C9_Witness ==
    /\ apiOp = "sendPrivateMsg"
    /\ message = <<>>
    /\ pc = "done"

\* the captions the photo sends must carry: the k-th sent image takes the
\* text from the end of the previous flush (the start of the chain for the
\* first) up to the next image node
ExpectedCaption(ch, sent, k) ==
    TextBetween(ch,
                IF k = 1 THEN 0 ELSE NextImage(ch, Nth(sent, k - 1)),
                NextImage(ch, Nth(sent, k)))

CaptionsOf(ch, sent) ==
    /\ Len(PhotoSends) = Cardinality(sent)
    /\ \A k \in 1..Cardinality(sent) :
          k \in DOMAIN PhotoSends =>
              /\ GetField(PhotoSends[k].params, K_photo) = ch[Nth(sent, k)].url
              /\ GetField(PhotoSends[k].params, K_caption) = ExpectedCaption(ch, sent, k)

SendMsgRanThrough ==
    /\ apiOp = "sendMsg"
    /\ pc \in {"ret", "done", "threw"}
    /\ NoRejection

\* C10 as stated: no text is lost or duplicated, each image that is sent
\* carries the text accumulated since the previous flush as caption, and the
\* text and image buffers are empty after every flush.
C10_NoTextLost_Original ==
    /\ SendMsgRanThrough =>
          /\ ConcatSent(requests) = AllText(chain)
          /\ CaptionsOf(chain, UrlAt(chain))
    /\ flushed # "none" => payload = EmptyPayload

\* C10 (amended): when no send is rejected, the captions of the photo sends
\* and the text of the plain send, in send order, concatenate to the text of
\* the chain; each image that is sent (those with a url, in chain order)
\* carries the text accumulated since the previous flush as caption; the text and
\* image buffers are empty after every photo flush, and the trailing plain
\* text send leaves the text it sent in the text buffer.
C10_NoTextLost ==
    /\ SendMsgRanThrough =>
          /\ ConcatSent(requests) = AllText(chain)
          /\ CaptionsOf(chain, UrlAt(chain))
    /\ flushed = "photo" => payload = EmptyPayload
    /\ flushed = "text" =>
          /\ payload.image = ""
          /\ payload.message # <<>>
          /\ payload.message = SentText(requests[Len(requests)])

\* two photo sends, the first with a caption, the second just flushed
C10_Witness ==
    /\ apiOp = "sendMsg"
    /\ pc = "ret"
    /\ NoRejection
    /\ flushed = "photo"
    /\ Len(PhotoSends) = 2
    /\ SentText(PhotoSends[1]) # <<>>

----------------------------------------------------------------------------
(* HTTP server adapter: start-up (TelegramHTTPServer.__listen, _listen) *)

NoClient == [owner |-> 0, baseURL |-> ""]

\* Axios.create({ baseURL: bot.server }) in the __listen call of bot b
AxiosCreate(b) == [owner |-> b, baseURL |-> bots[b]]

\* bot._request(action, params): `this._axios.get(action, params)` through
\* whatever client this._axios holds when the call is made
HttpGet(b, action, client) == [bot |-> b, action |-> action, client |-> client]

\* the __listen calls of bots 1..n, each up to its first await, in the order
\* of this.bots.map: the value of this._axios and the GETs made
RECURSIVE listenAll(_, _, _)
listenAll(b, client, log) ==
    IF b > Len(bots) THEN [axios |-> client, gets |-> log]
    ELSE LET mine == AxiosCreate(b)
         IN  listenAll(b + 1, mine, log \cup {HttpGet(b, "setWebhook", mine)})

\* _listen(): register the route, then Promise.all over the bots
Listen ==
    /\ serverPc = "constructed"
    /\ serverPc' = "starting"
    /\ LET r == listenAll(1, axios, gets)
       IN  /\ axios' = r.axios
           /\ gets' = r.gets
    /\ botReady' = [b \in DOMAIN bots |-> TRUE]
    /\ botRequest' = [b \in DOMAIN bots |-> TRUE]
    /\ pending' = DOMAIN bots
    /\ UNCHANGED <<bots, quickOperation, reqs, apiVars>>

\* the setWebhook call of bot b resolves; when the last one has, _listen does
SetWebhookReturn(b) ==
    /\ serverPc = "starting"
    /\ b \in pending
    /\ pending' = pending \ {b}
    /\ serverPc' = IF pending' = {} THEN "listening" ELSE serverPc
    /\ UNCHANGED <<bots, quickOperation, axios, botReady, botRequest, gets, reqs, apiVars>>

\* a later call of bot b that reaches bot._request (any Bot.get)
BotRequest(b, action) ==
    /\ b \in DOMAIN bots
    /\ botRequest[b]
    /\ gets' = gets \cup {HttpGet(b, action, axios)}
    /\ UNCHANGED <<serverPc, bots, quickOperation, axios, botReady, botRequest,
                   pending, reqs, apiVars>>

\* _close(): the listener stops accepting requests
Close ==
    /\ serverPc = "listening"
    /\ serverPc' = "closed"
    /\ UNCHANGED <<bots, quickOperation, axios, botReady, botRequest, pending,
                   gets, reqs, apiVars>>

----------------------------------------------------------------------------
(* HTTP server adapter: the webhook route handler and the quick-reply race *)

Requests == 1..MaxRequests
Bodies == {"update", "malformed"}

K_reply == <<"r","e","p","l","y">>
K_banDuration == <<"b","a","n","D","u","r","a","t","i","o","n">>
K_ban_duration == <<"b","a","n","_","d","u","r","a","t","i","o","n">>
K_atSender == <<"a","t","S","e","n","d","e","r">>
K_at_sender == <<"a","t","_","s","e","n","d","e","r">>

\* response payloads a handler may supply
Payloads == { <<Field(K_reply, 1)>>, <<Field(K_banDuration, 2), Field(K_atSender, 3)>> }

\* JSON.stringify: the text of an object
stringify(obj) == [json |-> obj]

\* this.prepare(body): the session of a well-formed update, nothing otherwise
prepare(body) == IF body = "update" THEN "session" ELSE "none"

\* the route handler without its early return
rejects_never(meta) == FALSE

\* `if (!meta) return ctx.status = 403` (line 53)
rejects(meta) == meta = "none"

\* the callback without its clearTimeout
clearTimeout_noop(t) == t

\* clearTimeout(timer): a timer that has not fired yet never fires
clearTimeout(t) == IF t = "armed" THEN "cleared" ELSE t

\* a request slot before its request arrives: koa's context and the session
FreshRequest ==
    [state |-> "waiting",        \* "waiting", "handled"
     meta |-> "none",            \* result of prepare
     status |-> 0,               \* ctx.status as set by the handler (0: not set)
     respond |-> TRUE,           \* ctx.respond
     head |-> 0,                 \* status given to ctx.res.writeHead (0: not called)
     dollarResponse |-> FALSE,   \* meta.$response is the callback
     sessResponse |-> "undefined", \* meta._response
     timer |-> "none",           \* "none", "armed", "cleared", "fired"
     body |-> <<>>,              \* chunks the stream accepted
     writeCalls |-> 0,           \* calls of ctx.res.write
     endCalls |-> 0,             \* calls of ctx.res.end
     ended |-> FALSE,            \* the stream has been ended
     dispatched |-> 0,           \* calls of this.dispatch(meta)
     first |-> "none",           \* who ended the stream: "handler" or "timer"
     payload |-> <<>>]           \* the payload given to the callback first

\* ctx.res.write(chunk); ctx.res.end(): a stream that has ended accepts no
\* further chunk
writeAndEnd(q, chunk) ==
    [q EXCEPT !.writeCalls = @ + 1,
              !.body = IF q.ended THEN @ ELSE Append(@, chunk),
              !.endCalls = @ + 1,
              !.ended = TRUE]

\* ctx.res.end()
endOnly(q) == [q EXCEPT !.endCalls = @ + 1, !.ended = TRUE]

\* the route handler, run to completion on an inbound POST (lines 50-76)
Receive(r, body) ==
    /\ serverPc \in {"starting", "listening"}
    /\ reqs[r].state = "waiting"
    /\ \A h \in Requests : h < r => reqs[h].state = "handled"   \* slots are used in order
    /\ LET meta == prepare(body)
           q == [reqs[r] EXCEPT !.state = "handled", !.meta = meta]
       IN  IF rejects(meta)
           THEN reqs' = [reqs EXCEPT ![r] = [q EXCEPT !.status = 403]]
           ELSE IF quickOperation > 0
                THEN reqs' = [reqs EXCEPT ![r] =
                                [q EXCEPT !.respond = FALSE,
                                          !.head = 200,
                                          !.dollarResponse = TRUE,
                                          !.timer = "armed",
                                          !.dispatched = @ + 1]]
                ELSE reqs' = [reqs EXCEPT ![r] = [q EXCEPT !.dispatched = @ + 1]]
    /\ UNCHANGED <<serverPc, bots, quickOperation, axios, botReady, botRequest,
                   pending, gets, apiVars>>

\* a handler invokes the callback the route handler attached to the session
\* (lines 62-67)
Respond(r, data) ==
    /\ reqs[r].dollarResponse
    /\ reqs[r].writeCalls < MaxCalls
    /\ LET q == reqs[r]
           q1 == [q EXCEPT !.sessResponse = "null",
                           !.timer = clearTimeout(@),
                           !.first = IF q.ended THEN @ ELSE "handler",
                           !.payload = IF q.ended THEN @ ELSE data]
       IN  reqs' = [reqs EXCEPT ![r] = writeAndEnd(q1, stringify(snakeCase(data)))]
    /\ UNCHANGED <<serverPc, bots, quickOperation, axios, botReady, botRequest,
                   pending, gets, apiVars>>

\* the quick-operation timer expires (lines 68-71)
TimerFire(r) ==
    /\ reqs[r].timer = "armed"
    /\ LET q == reqs[r]
           q1 == [q EXCEPT !.sessResponse = "null",
                           !.timer = "fired",
                           !.first = IF q.ended THEN @ ELSE "timer"]
       IN  reqs' = [reqs EXCEPT ![r] = endOnly(q1)]
    /\ UNCHANGED <<serverPc, bots, quickOperation, axios, botReady, botRequest,
                   pending, gets, apiVars>>

----------------------------------------------------------------------------
(* The two systems *)

BaseUrls == {"s1", "s2"}

\* quick replies off, or on with a timeout in milliseconds
QuickOperations == {0, 100}

InitServerVars ==
    /\ serverPc = "constructed"
    /\ \E n \in 1..MaxBots : bots \in [1..n -> BaseUrls]
    /\ quickOperation \in QuickOperations
    /\ axios = NoClient
    /\ botReady = [b \in DOMAIN bots |-> FALSE]
    /\ botRequest = [b \in DOMAIN bots |-> FALSE]
    /\ pending = {}
    /\ gets = {}
    /\ reqs = [r \in Requests |-> FreshRequest]

\* the API shim on one bot, the server left as constructed
InitApi ==
    /\ InitApiVars
    /\ serverPc = "constructed"
    /\ bots = <<"s1">>
    /\ quickOperation = 0
    /\ axios = NoClient
    /\ botReady = [b \in DOMAIN bots |-> FALSE]
    /\ botRequest = [b \in DOMAIN bots |-> FALSE]
    /\ pending = {}
    /\ gets = {}
    /\ reqs = [r \in Requests |-> FreshRequest]

SpecApi == InitApi /\ [][NextApi]_vars

InitServer == InitApiVars /\ InitServerVars

BotActions == {"getMe", "send_message"}

NextServer ==
    \/ Listen
    \/ \E b \in BotIds : SetWebhookReturn(b)
    \/ \E b \in BotIds, a \in BotActions : BotRequest(b, a)
    \/ Close
    \/ \E r \in Requests, body \in Bodies : Receive(r, body)
    \/ \E r \in Requests, data \in Payloads : Respond(r, data)
    \/ \E r \in Requests : TimerFire(r)

SpecServer == InitServer /\ [][NextServer]_vars

\* the webhook endpoint of an app with one bot
InitWebhook ==
    /\ InitServer
    /\ Len(bots) = 1

NextWebhook ==
    \/ Listen
    \/ \E b \in BotIds : SetWebhookReturn(b)
    \/ Close
    \/ \E r \in Requests, body \in Bodies : Receive(r, body)
    \/ \E r \in Requests, data \in Payloads : Respond(r, data)
    \/ \E r \in Requests : TimerFire(r)

SpecWebhook == InitWebhook /\ [][NextWebhook]_vars

----------------------------------------------------------------------------
(* Properties of the HTTP server adapter *)

Parsed(q) == q.state = "handled" /\ q.meta = "session"
Quick(q) == Parsed(q) /\ quickOperation > 0

\* the snake-cased key of each key of a response payload
SnakeKey(key) ==
    CASE key = K_reply -> K_reply
      [] key = K_banDuration -> K_ban_duration
      [] key = K_atSender -> K_at_sender

ExpectedBody(data) ==
    [json |-> [k \in DOMAIN data |-> Field(SnakeKey(data[k].key), data[k].value)]]

\* C4: in quick-reply mode every parsed request ends in one of two outcomes:
\* a handler supplied a payload before the timer expired, and then the body
\* is the serialized snake-cased payload, the stream is ended and the timer
\* is cancelled and never fires; or no handler did, and then the stream is
\* ended with an empty body when the timer expires. Until one of the two has
\* happened the timer stays armed, so the request cannot stay open.
C4_QuickReplyOutcome ==
    \A r \in Requests :
        Quick(reqs[r]) =>
            LET q == reqs[r]
            IN  /\ ~q.ended => (q.timer = "armed" /\ q.body = <<>> /\ q.first = "none")
                /\ q.ended =>
                      \/ /\ q.first = "handler"
                         /\ q.body = <<ExpectedBody(q.payload)>>
                         /\ q.timer = "cleared"
                      \/ /\ q.first = "timer"
                         /\ q.body = <<>>
                         /\ q.timer = "fired"

\* a handler answered with a two-field payload before the timer expired
C4_Witness ==
    \E r \in Requests :
        /\ Quick(reqs[r])
        /\ reqs[r].first = "handler"
        /\ Len(reqs[r].payload) = 2
        /\ reqs[r].timer = "cleared"

\* C5 as stated: the race has a single resolution: the stream is written at
\* most once and ended exactly once; once the timer has fired the callback
\* is cleared and a later handler response neither writes to nor ends the
\* stream; the callback is one-shot.
C5_SingleResolution ==
    \A r \in Requests :
        Quick(reqs[r]) =>
            LET q == reqs[r]
            IN  /\ q.writeCalls <= 1
                /\ q.endCalls <= 1
                /\ q.ended => q.endCalls = 1
                /\ q.first = "timer" => q.writeCalls = 0

\* C6: the number of sessions dispatched for an inbound request is one if
\* parsing yields a session and zero otherwise; on a parse failure the status
\* is 403 and no header is written, no callback attached, no timer armed.
C6_DispatchIffParsed ==
    \A r \in Requests :
        LET q == reqs[r]
        IN  /\ q.state = "waiting" => q.dispatched = 0
            /\ q.state = "handled" =>
                  /\ q.meta = "session" => q.dispatched = 1
                  /\ q.meta = "none" =>
                        /\ q.dispatched = 0
                        /\ q.status = 403
                        /\ q.respond
                        /\ q.head = 0
                        /\ ~q.dollarResponse
                        /\ q.sessResponse = "undefined"
                        /\ q.timer = "none"
                        /\ q.endCalls = 0 /\ q.writeCalls = 0

\* in quick-reply mode one request was rejected and another dispatched
C6_Witness ==
    /\ quickOperation > 0
    /\ \E r \in Requests : reqs[r].state = "handled" /\ reqs[r].status = 403
    /\ \E r \in Requests : Parsed(reqs[r]) /\ reqs[r].dispatched = 1

\* C7 as stated: after start-up every bot is ready, and every GET of a bot,
\* its setWebhook registration and every later call, goes through a client
\* bound to that bot's own base URL, never through the client of a bot with
\* another base URL.
C7_OwnClientPerBot ==
    /\ serverPc \in {"listening", "closed"} => \A b \in DOMAIN bots : botReady[b]
    /\ \A g \in gets : g.client.baseURL = bots[g.bot]

=============================================================================
